---- MODULE Spec2Model ----
(***************************************************************************)
(* Model of src/wigle2xy/wigle2xy.py: the Wigle CSV aggregation loop of    *)
(* parse_wigle_csv, its threshold filter, the part of main that reports    *)
(* the outcome, create_circle_coordinates, and triangulate_position for a  *)
(* single observation.                                                     *)
(*                                                                         *)
(* Text is held as sequences of one-character strings, so that str.strip,  *)
(* str.upper, float() and int() are computed character by character.       *)
(* float values are held in tenths (40.0 is 400); the inputs of the model  *)
(* carry at most one fractional digit.                                     *)
(***************************************************************************)
EXTENDS Integers, Sequences, FiniteSets, TLC

VARIABLES
    fieldnames,        \* csv.DictReader's fieldnames: the header row of the file
    min_observations,  \* args.min_observations, as handed to parse_wigle_csv
    consumed,          \* the rows the reader has yielded so far, in order
    handled,           \* history: what the loop did with each of them
    ap_observations,   \* ordered dict: sequence of [mac, observations]
    ap_ssids,          \* dict mac -> ssid
    stdout,            \* the lines printed so far
    pc,                \* where the run is
    exc,               \* the exception leaving parse_wigle_csv, or "none"
    triangulated_aps,  \* the list parse_wigle_csv returns
    exit_code,         \* what main returns (NoExit until it does)
    lat, lon, radius_meters, num_points,   \* create_circle_coordinates' arguments
    i,                 \* its loop variable
    points,            \* its list of points
    observations_in,   \* triangulate_position's argument observations
    weights, total_weight, normalized_weights,   \* its locals
    weighted_lat, weighted_lon,
    result             \* the tuple it returns (empty until it does)

pipeVars == <<fieldnames, min_observations, consumed, handled, ap_observations, ap_ssids,
              stdout, pc, exc, triangulated_aps, exit_code>>
circleVars == <<lat, lon, radius_meters, num_points, i, points>>
estimateVars == <<observations_in, weights, total_weight, normalized_weights,
                  weighted_lat, weighted_lon, result>>
vars == <<fieldnames, min_observations, consumed, handled, ap_observations, ap_ssids,
          stdout, pc, exc, triangulated_aps, exit_code,
          lat, lon, radius_meters, num_points, i, points,
          observations_in, weights, total_weight, normalized_weights,
          weighted_lat, weighted_lon, result>>

(***************************************************************************)
(* Bounds                                                                  *)
(***************************************************************************)
\* the number of data rows of the input file
MaxRows == 3

(***************************************************************************)
(* Python values: a str, None, or a number (the defaults of row.get).      *)
(***************************************************************************)
PyStr(s) == [tag |-> "str", s |-> s, n |-> 0]
PyNone == [tag |-> "None", s |-> <<>>, n |-> 0]
PyNum(n) == [tag |-> "num", s |-> <<>>, n |-> n]

Digits == <<"0", "1", "2", "3", "4", "5", "6", "7", "8", "9">>
IsDigit(c) == \E d \in 1..10 : Digits[d] = c
DigitVal(c) == (CHOOSE d \in 1..10 : Digits[d] = c) - 1
IsSpace(c) == c = " "

\* str.upper on one character
UpperChar(c) ==
    CASE c = "a" -> "A"
      [] c = "b" -> "B"
      [] c = "c" -> "C"
      [] c = "x" -> "X"
      [] c = "y" -> "Y"
      [] OTHER -> c

upper(s) == [k \in 1..Len(s) |-> UpperChar(s[k])]

RECURSIVE lstrip(_)
lstrip(s) == IF s # <<>> /\ IsSpace(Head(s)) THEN lstrip(Tail(s)) ELSE s

RECURSIVE rstrip(_)
rstrip(s) ==
    IF s # <<>> /\ IsSpace(s[Len(s)]) THEN rstrip(SubSeq(s, 1, Len(s) - 1)) ELSE s

strip(s) == rstrip(lstrip(s))

AllDigits(s) == \A k \in 1..Len(s) : IsDigit(s[k])

RECURSIVE DigitsVal(_)
DigitsVal(s) ==
    IF s = <<>> THEN 0 ELSE DigitsVal(SubSeq(s, 1, Len(s) - 1)) * 10 + DigitVal(s[Len(s)])

HasSign(s) == s # <<>> /\ s[1] \in {"-", "+"}
Unsigned(s) == IF HasSign(s) THEN Tail(s) ELSE s
Sign(s) == IF s # <<>> /\ s[1] = "-" THEN -1 ELSE 1

\* position of the first "." of s, or 0
DotAt(s) ==
    IF \E k \in 1..Len(s) : s[k] = "."
    THEN CHOOSE k \in 1..Len(s) : s[k] = "." /\ \A j \in 1..(k - 1) : s[j] # "."
    ELSE 0

IntPart(s) == IF DotAt(s) = 0 THEN s ELSE SubSeq(s, 1, DotAt(s) - 1)
FracPart(s) == IF DotAt(s) = 0 THEN <<>> ELSE SubSeq(s, DotAt(s) + 1, Len(s))

\* int(str): optional whitespace, optional sign, one or more digits
IntParses(s) ==
    LET u == Unsigned(strip(s)) IN u # <<>> /\ AllDigits(u)
IntOfStr(s) == Sign(strip(s)) * DigitsVal(Unsigned(strip(s)))

\* float(str): optional whitespace, optional sign, digits with an optional
\* fraction, at least one digit in all
FloatParses(s) ==
    LET u == Unsigned(strip(s)) IN
        /\ AllDigits(IntPart(u))
        /\ AllDigits(FracPart(u))
        /\ Len(IntPart(u)) + Len(FracPart(u)) > 0
\* the value in tenths
FloatOfStr(s) ==
    LET u == Unsigned(strip(s))
        f == FracPart(u)
    IN Sign(strip(s)) * (DigitsVal(IntPart(u)) * 10 + (IF f = <<>> THEN 0 ELSE DigitVal(f[1])))

\* float(v) and int(v): the exception raised, or "none"
FloatRaises(v) ==
    CASE v.tag = "None" -> "TypeError"
      [] v.tag = "str" /\ ~FloatParses(v.s) -> "ValueError"
      [] OTHER -> "none"
FloatOf(v) == IF v.tag = "num" THEN v.n * 10 ELSE FloatOfStr(v.s)

IntRaises(v) ==
    CASE v.tag = "None" -> "TypeError"
      [] v.tag = "str" /\ ~IntParses(v.s) -> "ValueError"
      [] OTHER -> "none"
IntOf(v) == IF v.tag = "num" THEN v.n ELSE IntOfStr(v.s)

\* v.strip(): AttributeError on None
StripRaises(v) == IF v.tag = "str" THEN "none" ELSE "AttributeError"

(***************************************************************************)
(* csv.DictReader: a row shorter than the header has None for the missing  *)
(* columns (restval); a key that is no column is absent from the dict.     *)
(***************************************************************************)
HasKey(h, key) == \E k \in 1..Len(h) : h[k] = key
KeyAt(h, key) == CHOOSE k \in 1..Len(h) : h[k] = key

\* row.get(key, default)
Get(h, row, key, default) ==
    IF ~HasKey(h, key) THEN default
    ELSE IF KeyAt(h, key) > Len(row) THEN PyNone
    ELSE PyStr(row[KeyAt(h, key)])

(***************************************************************************)
(* One iteration of the loop over the reader (lines 138-178).              *)
(***************************************************************************)
APObservation(latitude, longitude, signal_strength, accuracy) ==
    [latitude |-> latitude, longitude |-> longitude,
     signal_strength |-> signal_strength, accuracy |-> accuracy]

NoObservation == APObservation(0, 0, 0, 0)

Outcome(kind, why, mac, ssid, obs) ==
    [kind |-> kind, exc |-> why, mac |-> mac, ssid |-> ssid, obs |-> obs]

\* an exception inside the try block: ValueError and KeyError are caught and
\* the row is skipped with a warning (lines 175-178); any other propagates
Except(why) ==
    IF why \in {"ValueError", "KeyError"}
    THEN Outcome("warn", why, <<>>, <<>>, NoObservation)
    ELSE Outcome("raise", why, <<>>, <<>>, NoObservation)

\* the zero/zero test of line 157
InvalidCoordinates(la, lo) == la = 0 /\ lo = 0

\* the fields of a row as the loop body reads them (lines 140-154)
MacField(h, row) == Get(h, row, "MAC", PyStr(<<>>))
SsidField(h, row) == Get(h, row, "SSID", PyStr(<<>>))
LatField(h, row) == Get(h, row, "CurrentLatitude", Get(h, row, "Lat", PyNum(0)))
LonField(h, row) == Get(h, row, "CurrentLongitude", Get(h, row, "Lon", PyNum(0)))
SignalFieldNoDefault(h, row) == Get(h, row, "RSSI", Get(h, row, "Signal", PyNum(0)))
SignalField(h, row) == Get(h, row, "RSSI", Get(h, row, "Signal", PyNum(-100)))
AccuracyField(h, row) == Get(h, row, "Accuracy", Get(h, row, "AccuracyMeters", PyNum(10)))

\* the body of the try block for one row: what it does with the row
ParseRow(h, row) ==
    LET macv == MacField(h, row)
        ssidv == SsidField(h, row)
        latv == LatField(h, row)
        lonv == LonField(h, row)
        sigv == SignalField(h, row)
        accv == AccuracyField(h, row)
    IN
    IF StripRaises(macv) # "none" THEN Except(StripRaises(macv))
    ELSE IF StripRaises(ssidv) # "none" THEN Except(StripRaises(ssidv))
    ELSE
      LET mac == upper(strip(macv.s))
          ssid == strip(ssidv.s)
      IN
      IF mac = <<>> THEN Outcome("skip_mac", "none", mac, ssid, NoObservation)
      ELSE IF FloatRaises(latv) # "none" THEN Except(FloatRaises(latv))
      ELSE IF FloatRaises(lonv) # "none" THEN Except(FloatRaises(lonv))
      ELSE IF IntRaises(sigv) # "none" THEN Except(IntRaises(sigv))
      ELSE IF FloatRaises(accv) # "none" THEN Except(FloatRaises(accv))
      ELSE IF InvalidCoordinates(FloatOf(latv), FloatOf(lonv))
           THEN Outcome("skip_zero", "none", mac, ssid, NoObservation)
      ELSE Outcome("append", "none", mac, ssid,
                   APObservation(FloatOf(latv), FloatOf(lonv), IntOf(sigv), FloatOf(accv)))

\* the ordered dict ap_observations
HasMac(d, mac) == \E k \in 1..Len(d) : d[k].mac = mac
MacAt(d, mac) == CHOOSE k \in 1..Len(d) : d[k].mac = mac
ObservationsOf(d, mac) == IF HasMac(d, mac) THEN d[MacAt(d, mac)].observations ELSE <<>>

\* ap_observations[mac].append(observation) on a defaultdict(list) (line 167)
AppendObservation(d, mac, obs) ==
    IF HasMac(d, mac)
    THEN [d EXCEPT ![MacAt(d, mac)].observations = Append(@, obs)]
    ELSE Append(d, [mac |-> mac, observations |-> <<obs>>])

\* lines 170-173
StoreSsidLast(ssids, mac, ssid) ==
    IF ssid # <<>> THEN (mac :> ssid) @@ ssids ELSE ssids
StoreSsid(ssids, mac, ssid) ==
    IF mac \notin DOMAIN ssids /\ ssid # <<>> THEN (mac :> ssid) @@ ssids
    ELSE IF mac \in DOMAIN ssids /\ ssids[mac] = <<>> /\ ssid # <<>>
         THEN (mac :> ssid) @@ ssids
    ELSE ssids

\* ap_ssids.get(mac, '') (line 189)
SsidGet(ssids, mac) == IF mac \in DOMAIN ssids THEN ssids[mac] ELSE <<>>

WarningLine == "Warning: Skipping malformed row"

\* print(f"Warning: ...") of line 177
Warn(out, r) == IF r.kind = "warn" THEN Append(out, WarningLine) ELSE out

\* one iteration of the loop on the state st = [ap_observations, ap_ssids,
\* stdout, exc]: the row is appended, skipped, skipped with a warning, or its
\* exception leaves the loop
Aggregate(st, h, row) ==
    LET r == ParseRow(h, row) IN
    [ap_observations |->
        IF r.kind = "append"
        THEN AppendObservation(st.ap_observations, r.mac, r.obs)
        ELSE st.ap_observations,
     ap_ssids |->
        IF r.kind = "append" THEN StoreSsid(st.ap_ssids, r.mac, r.ssid) ELSE st.ap_ssids,
     stdout |-> Warn(st.stdout, r),
     exc |-> IF r.kind = "raise" THEN r.exc ELSE st.exc]

(***************************************************************************)
(* The threshold filter and the results (lines 180-197).                   *)
(***************************************************************************)
\* line 184
QualifiesStrictly(observations, min) == Len(observations) > min
QualifiesOffByOne(observations, min) == Len(observations) + 1 >= min
Qualifies(observations, min) == Len(observations) >= min

\* what triangulate_position raises for a list of observations, or "none":
\* ValueError on an empty list (line 69), OverflowError from 10 ** (s / 10)
\* once s / 10 passes the largest double exponent (line 78),
\* ZeroDivisionError from 1 / (accuracy + 1) at accuracy -1 (line 82)
TriangulateRaises(observations) ==
    IF observations = <<>> THEN "ValueError"
    ELSE IF \E k \in 1..Len(observations) : observations[k].signal_strength >= 3083
         THEN "OverflowError"
    ELSE IF \E k \in 1..Len(observations) : observations[k].accuracy = -10
         THEN "ZeroDivisionError"
    ELSE "none"

\* observation_count of line 193
ObservationCountShort(observations) == Len(observations) - 1
ObservationCount(observations) == Len(observations)

\* lines 187-194 (the estimated position is not part of this record here)
TriangulatedAP(e, ssids) ==
    [mac |-> e.mac, ssid |-> SsidGet(ssids, e.mac),
     observation_count |-> ObservationCount(e.observations)]

\* the entries of the dict that pass line 184, in dict order
Qualifying(d, min) == SelectSeq(d, LAMBDA e : Qualifies(e.observations, min))

\* the loop of lines 183-195 on the state st: the list returned, or the
\* exception of the first triangulate_position call that raises
Filter(st, min) ==
    LET q == Qualifying(st.ap_observations, min)
        bad == {k \in 1..Len(q) : TriangulateRaises(q[k].observations) # "none"}
    IN IF bad = {}
       THEN [exc |-> "none",
             triangulated_aps |-> [k \in 1..Len(q) |-> TriangulatedAP(q[k], st.ap_ssids)]]
       ELSE [exc |-> TriangulateRaises(q[CHOOSE k \in bad : \A j \in bad : k <= j].observations),
             triangulated_aps |-> <<>>]

\* what main prints and returns once parse_wigle_csv has returned or raised
\* (lines 409-435)
ErrorLine == "Error parsing CSV file"
NoResultsLine == "No access points found with enough observations for triangulation"
DoneLines ==
    <<"Found access points", "Average uncertainty",
      "Maximum observations for a single AP", "Creating KML file", "Done!">>

(***************************************************************************)
(* Inputs: the header of the file and the rows it may hold.  Each column   *)
(* has a well-formed text and a few others; a row is the well-formed row,  *)
(* that row with one column changed, the row with both coordinates zero,   *)
(* or a row cut short.                                                     *)
(***************************************************************************)
Headers ==
    { <<"MAC", "SSID", "RSSI", "CurrentLatitude", "CurrentLongitude", "AccuracyMeters">>,
      <<"MAC", "SSID", "Lat", "Lon">>,
      <<"MAC", "Signal", "Lat", "Lon", "Accuracy">>,
      <<"SSID", "Lat", "Lon">> }

BaseText(col) ==
    CASE col = "MAC" -> <<"a", "a">>
      [] col = "SSID" -> <<"x">>
      [] col \in {"RSSI", "Signal"} -> <<"-", "5", "0">>
      [] col \in {"CurrentLatitude", "Lat"} -> <<"4", "0">>
      [] col \in {"CurrentLongitude", "Lon"} -> <<"-", "7", "4">>
      [] OTHER -> <<"5">>

OtherTexts(col) ==
    CASE col = "MAC" -> { <<"A", "A", " ">>, <<"b", "b">>, <<" ">> }
      [] col = "SSID" -> { <<" ">>, <<"y", " ">> }
      [] col = "RSSI" -> { }
      [] col = "Signal" -> { <<"-", "7", "0", ".", "5">> }
      [] col = "CurrentLatitude" -> { <<"0">>, <<"a", "b", "c">> }
      [] col = "Lat" -> { <<"0">> }
      [] col = "CurrentLongitude" -> { }
      [] col = "Lon" -> { <<"0", ".", "0">> }
      [] col = "AccuracyMeters" -> { <<>> }
      [] OTHER -> { <<"-", "1">> }

BaseRow(h) == [k \in 1..Len(h) |-> BaseText(h[k])]

ZeroText(col) ==
    CASE col \in {"CurrentLatitude", "Lat"} -> <<"0">>
      [] col \in {"CurrentLongitude", "Lon"} -> <<"-", "0", ".", "0">>
      [] OTHER -> BaseText(col)

ZeroRow(h) == [k \in 1..Len(h) |-> ZeroText(h[k])]

ShortRows(h) == { SubSeq(BaseRow(h), 1, n) : n \in {1, 2, Len(h) - 1} }

RowChoices(h) ==
    {BaseRow(h), ZeroRow(h)}
        \cup UNION { { [BaseRow(h) EXCEPT ![k] = t] : t \in OtherTexts(h[k]) } : k \in 1..Len(h) }
        \cup ShortRows(h)

MinObservationsChoices == {-1, 0, 1, 2, 3}

(***************************************************************************)
(* The run of main over one file.                                          *)
(***************************************************************************)
\* lines 403-404
StartLines == <<"Reading Wigle CSV file", "Minimum observations">>

Init ==
    /\ fieldnames \in Headers
    /\ min_observations \in MinObservationsChoices
    /\ consumed = <<>>
    /\ handled = <<>>
    /\ ap_observations = <<>>
    /\ ap_ssids = <<>>
    /\ stdout = StartLines
    /\ pc = "reading"
    /\ exc = "none"
    /\ triangulated_aps = <<>>
    /\ exit_code = <<>>
    /\ lat = 0 /\ lon = 0 /\ radius_meters = 0 /\ num_points = 1
    /\ i = 0 /\ points = <<>>
    /\ observations_in = <<>> /\ weights = <<>> /\ normalized_weights = <<>>
    /\ total_weight = [zero |-> TRUE, db |-> 0]
    /\ weighted_lat = 0 /\ weighted_lon = 0 /\ result = <<>>

\* one iteration of "for row in reader" (lines 138-178)
ReadRow ==
    /\ pc = "reading"
    /\ Len(consumed) < MaxRows
    /\ \E row \in RowChoices(fieldnames) :
         LET st == Aggregate([ap_observations |-> ap_observations, ap_ssids |-> ap_ssids,
                              stdout |-> stdout, exc |-> exc], fieldnames, row)
         IN
         /\ consumed' = Append(consumed, row)
         /\ handled' = Append(handled, ParseRow(fieldnames, row).kind)
         /\ ap_observations' = st.ap_observations
         /\ ap_ssids' = st.ap_ssids
         /\ stdout' = st.stdout
         /\ exc' = st.exc
         /\ pc' = IF st.exc # "none" THEN "raised" ELSE "reading"
    /\ UNCHANGED <<fieldnames, min_observations, triangulated_aps, exit_code>>
    /\ UNCHANGED circleVars
    /\ UNCHANGED estimateVars

\* the reader is exhausted: lines 180-197
Triangulate ==
    /\ pc = "reading"
    /\ LET f == Filter([ap_observations |-> ap_observations, ap_ssids |-> ap_ssids],
                       min_observations)
       IN /\ triangulated_aps' = f.triangulated_aps
          /\ exc' = f.exc
          /\ pc' = IF f.exc # "none" THEN "raised" ELSE "returned"
    /\ UNCHANGED <<fieldnames, min_observations, consumed, handled, ap_observations, ap_ssids,
                   stdout, exit_code>>
    /\ UNCHANGED circleVars
    /\ UNCHANGED estimateVars

\* main, lines 409-411: parse_wigle_csv raised
MainParseError ==
    /\ pc = "raised"
    /\ stdout' = Append(stdout, ErrorLine)
    /\ exit_code' = <<1>>
    /\ pc' = "exited"
    /\ UNCHANGED <<fieldnames, min_observations, consumed, handled, ap_observations, ap_ssids,
                   exc, triangulated_aps>>
    /\ UNCHANGED circleVars
    /\ UNCHANGED estimateVars

\* main, lines 413-415: the list is empty
MainNoResults ==
    /\ pc = "returned"
    /\ triangulated_aps = <<>>
    /\ stdout' = Append(stdout, NoResultsLine)
    /\ exit_code' = <<1>>
    /\ pc' = "exited"
    /\ UNCHANGED <<fieldnames, min_observations, consumed, handled, ap_observations, ap_ssids,
                   exc, triangulated_aps>>
    /\ UNCHANGED circleVars
    /\ UNCHANGED estimateVars

\* main, lines 417-435: the statistics, the KML file, return 0
MainDone ==
    /\ pc = "returned"
    /\ triangulated_aps # <<>>
    /\ stdout' = stdout \o DoneLines
    /\ exit_code' = <<0>>
    /\ pc' = "exited"
    /\ UNCHANGED <<fieldnames, min_observations, consumed, handled, ap_observations, ap_ssids,
                   exc, triangulated_aps>>
    /\ UNCHANGED circleVars
    /\ UNCHANGED estimateVars

Next == ReadRow \/ Triangulate \/ MainParseError \/ MainNoResults \/ MainDone

Spec == Init /\ [][Next]_vars

(***************************************************************************)
(* The whole run as a function of its input, with the operators the        *)
(* actions use: the rows are folded with Aggregate until one raises, then  *)
(* Filter, then what main prints and returns.                              *)
(***************************************************************************)
RECURSIVE AggregateAll(_, _, _)
AggregateAll(st, h, rows) ==
    IF rows = <<>> \/ st.exc # "none" THEN st
    ELSE AggregateAll(Aggregate(st, h, Head(rows)), h, Tail(rows))

RunOutcome(h, rows, min) ==
    LET st == AggregateAll([ap_observations |-> <<>>, ap_ssids |-> <<>>,
                            stdout |-> StartLines, exc |-> "none"], h, rows)
        f == IF st.exc = "none" THEN Filter(st, min)
             ELSE [exc |-> st.exc, triangulated_aps |-> <<>>]
    IN IF f.exc # "none"
       THEN [triangulated_aps |-> <<>>, stdout |-> Append(st.stdout, ErrorLine),
             exit_code |-> <<1>>]
       ELSE IF f.triangulated_aps = <<>>
       THEN [triangulated_aps |-> <<>>, stdout |-> Append(st.stdout, NoResultsLine),
             exit_code |-> <<1>>]
       ELSE [triangulated_aps |-> f.triangulated_aps, stdout |-> st.stdout \o DoneLines,
             exit_code |-> <<0>>]

\* the run of the model is the run of the function
RunIsRunOutcome ==
    pc = "exited" =>
        RunOutcome(fieldnames, consumed, min_observations) =
            [triangulated_aps |-> triangulated_aps, stdout |-> stdout, exit_code |-> exit_code]

(***************************************************************************)
(* What the claims speak of, read off the rows consumed.                   *)
(***************************************************************************)
\* the identity a record names: its MAC text, trimmed and upper-cased
RecordIdentity(h, row) ==
    IF MacField(h, row).tag = "str" THEN upper(strip(MacField(h, row).s)) ELSE <<>>

\* the display name a record carries, trimmed
RecordName(h, row) ==
    IF SsidField(h, row).tag = "str" THEN strip(SsidField(h, row).s) ELSE <<>>

KindOf(k) == handled[k]
Accepted(k) == KindOf(k) = "append"
RecordsOf(mac) == {k \in 1..Len(consumed) : RecordIdentity(fieldnames, consumed[k]) = mac}
AcceptedOf(mac) == {k \in RecordsOf(mac) : Accepted(k)}
Identities == {RecordIdentity(fieldnames, consumed[k]) : k \in 1..Len(consumed)} \ {<<>>}
Occurrences(mac) ==
    Cardinality({k \in 1..Len(triangulated_aps) : triangulated_aps[k].mac = mac})
WarningCount == Cardinality({k \in 1..Len(stdout) : stdout[k] = WarningLine})

\* parse_wigle_csv has returned its list
Returned == pc = "returned" \/ (pc = "exited" /\ exc = "none")

\* C1: for a threshold >= 1, the list returned holds an identity exactly once
\* when the number of its accepted observations is >= min_observations, and
\* not at all when it is smaller; it holds nothing else.
C1_QualifiesIffThreshold ==
    (Returned /\ min_observations >= 1) =>
        /\ \A mac \in Identities :
              Occurrences(mac) =
                  IF Cardinality(AcceptedOf(mac)) >= min_observations THEN 1 ELSE 0
        /\ \A k \in 1..Len(triangulated_aps) : triangulated_aps[k].mac \in Identities

C1_Witness ==
    /\ Returned
    /\ min_observations >= 2
    /\ \E m1, m2 \in Identities :
          /\ Occurrences(m1) = 1
          /\ Cardinality(AcceptedOf(m1)) = min_observations
          /\ AcceptedOf(m2) # {}
          /\ Occurrences(m2) = 0

\* C2: every TriangulatedAP returned has observation_count equal to the
\* number of records of its identity that were appended (not dropped), which
\* is the list handed to triangulate_position, and that count is
\* >= min_observations.
C2_ObservationCount ==
    Returned =>
        \A k \in 1..Len(triangulated_aps) :
            LET ap == triangulated_aps[k] IN
            /\ ap.observation_count = Cardinality(AcceptedOf(ap.mac))
            /\ ap.observation_count = Len(ObservationsOf(ap_observations, ap.mac))
            /\ ap.observation_count >= min_observations

C2_Witness ==
    /\ Returned
    /\ min_observations >= 1
    /\ \E k \in 1..Len(triangulated_aps) :
          /\ triangulated_aps[k].observation_count >= 2
          /\ RecordsOf(triangulated_aps[k].mac) # AcceptedOf(triangulated_aps[k].mac)

\* the first non-empty name among the records k.. of identity mac (among
\* the accepted ones only, when acceptedOnly)
RECURSIVE FirstName(_, _, _)
FirstName(mac, k, acceptedOnly) ==
    IF k > Len(consumed) THEN <<>>
    ELSE IF /\ RecordIdentity(fieldnames, consumed[k]) = mac
            /\ RecordName(fieldnames, consumed[k]) # <<>>
            /\ (acceptedOnly => Accepted(k))
         THEN RecordName(fieldnames, consumed[k])
    ELSE FirstName(mac, k + 1, acceptedOnly)

\* C3 as stated, for the identities the aggregation holds: the name stored
\* for an identity is the first non-empty trimmed name among all of that
\* identity's records, in input order, and empty when there is none.
C3_FirstNameOfAllRecords ==
    exc = "none" =>
        \A mac \in Identities :
            HasMac(ap_observations, mac) =>
                SsidGet(ap_ssids, mac) = FirstName(mac, 1, FALSE)

\* C3 amended: the name stored for an identity, and the ssid of its
\* TriangulatedAP, is the first non-empty trimmed name among that identity's
\* accepted records, in input order (so no later record changes it), and
\* empty when no accepted record carries one.
C3_FirstNameOfAcceptedRecords ==
    /\ \A mac \in Identities : SsidGet(ap_ssids, mac) = FirstName(mac, 1, TRUE)
    /\ \A k \in 1..Len(triangulated_aps) :
          triangulated_aps[k].ssid = FirstName(triangulated_aps[k].mac, 1, TRUE)

C3_Witness ==
    \E j, k \in 1..Len(consumed) :
        /\ j < k
        /\ Accepted(j) /\ Accepted(k)
        /\ RecordIdentity(fieldnames, consumed[j]) = RecordIdentity(fieldnames, consumed[k])
        /\ RecordName(fieldnames, consumed[j]) # <<>>
        /\ RecordName(fieldnames, consumed[k]) # <<>>
        /\ RecordName(fieldnames, consumed[k]) # RecordName(fieldnames, consumed[j])
        /\ SsidGet(ap_ssids, RecordIdentity(fieldnames, consumed[j]))
              = RecordName(fieldnames, consumed[j])
        /\ \A n \in 1..(j - 1) :
              RecordIdentity(fieldnames, consumed[n]) # RecordIdentity(fieldnames, consumed[j])

\* C4: every record skipped, for a missing or empty identity, for a
\* non-numeric value in a numeric field, or for latitude and longitude both
\* zero, has caused one warning by the time the next record is read.
C4_EverySkipWarns ==
    WarningCount =
        Cardinality({k \in 1..Len(consumed) : KindOf(k) \in {"skip_mac", "warn", "skip_zero"}})

\* C5: no record aborts the aggregation: the loop never ends on the exception
\* of a record.
C5_NoRecordAborts ==
    ~(/\ pc = "raised"
      /\ consumed # <<>>
      /\ KindOf(Len(consumed)) = "raise")

(***************************************************************************)
(* C6: the step that reads one record, and what it does with it.           *)
(***************************************************************************)
ValidIdentity(h, row) == MacField(h, row).tag = "str" /\ strip(MacField(h, row).s) # <<>>
ValidCoordinates(h, row) ==
    /\ FloatRaises(LatField(h, row)) = "none"
    /\ FloatRaises(LonField(h, row)) = "none"
    /\ ~(FloatOf(LatField(h, row)) = 0 /\ FloatOf(LonField(h, row)) = 0)
SignalAbsent(h) == ~HasKey(h, "RSSI") /\ ~HasKey(h, "Signal")
AccuracyAbsent(h) == ~HasKey(h, "Accuracy") /\ ~HasKey(h, "AccuracyMeters")
SignalUnparseable(h, row) ==
    SignalField(h, row).tag = "str" /\ ~IntParses(SignalField(h, row).s)

\* this step reads a record
ReadsRecord == Len(consumed') = Len(consumed) + 1
\* this step appends one observation to the list of the identity mac
Keeps(mac) ==
    Len(ObservationsOf(ap_observations', mac)) = Len(ObservationsOf(ap_observations, mac)) + 1
Kept(mac) == ObservationsOf(ap_observations', mac)[Len(ObservationsOf(ap_observations', mac))]

\* C6 as stated: a record with a valid identity and valid coordinates, not
\* both zero, whose signal field is absent or unparseable is kept with
\* signal_strength -100, and one whose accuracy field is absent is kept with
\* accuracy 10.
C6_DefaultsWhenAbsentOrUnparseable ==
    [][ReadsRecord =>
         LET row == consumed'[Len(consumed')]
             mac == RecordIdentity(fieldnames, row)
         IN (ValidIdentity(fieldnames, row) /\ ValidCoordinates(fieldnames, row)) =>
              /\ (SignalAbsent(fieldnames) \/ SignalUnparseable(fieldnames, row)) =>
                     (Keeps(mac) /\ Kept(mac).signal_strength = -100)
              /\ AccuracyAbsent(fieldnames) =>
                     (Keeps(mac) /\ Kept(mac).accuracy = 100)]_vars

\* C6 amended: for a record with a text in every column of the header, a
\* valid identity and valid coordinates, not both zero: with no signal
\* column it is kept with signal_strength -100 when its accuracy is absent or
\* parses; with no accuracy column it is kept with accuracy 10 when its
\* signal is absent or parses; with a signal text that int() rejects it is
\* dropped with a warning.
C6_DefaultsWhenAbsent ==
    [][ReadsRecord =>
         LET row == consumed'[Len(consumed')]
             mac == RecordIdentity(fieldnames, row)
         IN (/\ Len(row) = Len(fieldnames)
             /\ ValidIdentity(fieldnames, row)
             /\ ValidCoordinates(fieldnames, row)) =>
              /\ (SignalAbsent(fieldnames) /\ FloatRaises(AccuracyField(fieldnames, row)) = "none") =>
                     (Keeps(mac) /\ Kept(mac).signal_strength = -100)
              /\ (AccuracyAbsent(fieldnames) /\ IntRaises(SignalField(fieldnames, row)) = "none") =>
                     (Keeps(mac) /\ Kept(mac).accuracy = 100)
              /\ SignalUnparseable(fieldnames, row) =>
                     (ap_observations' = ap_observations /\ stdout' = Append(stdout, WarningLine))]_vars

C6_Witness ==
    /\ pc = "reading"
    /\ consumed # <<>>
    /\ SignalAbsent(fieldnames) /\ AccuracyAbsent(fieldnames)
    /\ LET row == consumed[Len(consumed)]
           obs == ObservationsOf(ap_observations, RecordIdentity(fieldnames, row))
       IN /\ Len(row) = Len(fieldnames)
          /\ ValidIdentity(fieldnames, row) /\ ValidCoordinates(fieldnames, row)
          /\ Len(obs) = Cardinality(AcceptedOf(RecordIdentity(fieldnames, row)))
          /\ obs # <<>>
          /\ obs[Len(obs)].signal_strength = -100
          /\ obs[Len(obs)].accuracy = 100

\* C7: a run with min_observations < 1 ends in a failure: it never ends
\* with the success status that follows a returned list.
C7_InvalidThresholdIsFatal == min_observations < 1 => exit_code # <<0>>

\* the rows without the k-th
Without(rows, k) == SubSeq(rows, 1, k - 1) \o SubSeq(rows, k + 1, Len(rows))

\* no observation held has latitude and longitude both zero
ZeroRecordNeverAppended ==
    \A n \in 1..Len(ap_observations) :
        \A j \in 1..Len(ap_observations[n].observations) :
            ~(/\ ap_observations[n].observations[j].latitude = 0
              /\ ap_observations[n].observations[j].longitude = 0)

\* C8: a record with latitude and longitude both zero is counted, so that
\* the number of skipped records can be derived from the outcome of the run
\* (the list, the lines printed, the exit status): the run without that
\* record, which skips one record fewer, has another outcome.
C8_SkippedCountDerivable ==
    (pc = "exited" /\ exc = "none" /\ min_observations >= 1) =>
        \A k \in 1..Len(consumed) :
            KindOf(k) = "skip_zero" =>
                RunOutcome(fieldnames, Without(consumed, k), min_observations)
                    # [triangulated_aps |-> triangulated_aps, stdout |-> stdout,
                       exit_code |-> exit_code]

\* C9: when the loop has read all the rows and no identity has
\* min_observations accepted observations, parse_wigle_csv raises nothing and
\* returns the empty list, and main reports "No access points found", not
\* an error in parsing.
NoneQualify == \A mac \in Identities : Cardinality(AcceptedOf(mac)) < min_observations
LoopCompleted == pc # "reading" /\ \A k \in 1..Len(consumed) : KindOf(k) # "raise"

C9_EmptyResultIsNoFailure ==
    (LoopCompleted /\ NoneQualify) =>
        /\ exc = "none"
        /\ pc # "raised"
        /\ triangulated_aps = <<>>
        /\ pc = "exited" =>
              /\ stdout[Len(stdout)] = NoResultsLine
              /\ \A k \in 1..Len(stdout) : stdout[k] # ErrorLine

C9_Witness ==
    /\ pc = "exited"
    /\ LoopCompleted /\ NoneQualify
    /\ triangulated_aps = <<>>
    /\ \E mac \in Identities :
          /\ Cardinality(AcceptedOf(mac)) >= 2
          /\ Cardinality(AcceptedOf(mac)) = min_observations - 1

(***************************************************************************)
(* create_circle_coordinates (lines 329-357).                              *)
(*                                                                         *)
(* A double is held as [u, e]: u its value in the unit of the quantity     *)
(* (thousandths for a sine, micro-degrees for an angle in degrees), and e  *)
(* the sign of what is left when the value is smaller than the unit can    *)
(* hold.  Such a remainder is what rounding drops when it is added to a    *)
(* number of ordinary size, and what stays when it is added to 0.0.  The   *)
(* sine and cosine in between the quarter turns are Bhaskara's rational    *)
(* approximation; at the quarter turns they are what math.sin and math.cos *)
(* return for the doubles 2*pi*i/n: sin(2*pi) is -2.4492935982947064e-16   *)
(* and sin(pi) is 1.2246467991473532e-16, not 0; cos(pi/2) is              *)
(* 6.123233995736766e-17 and cos(3*pi/2) is -1.8369701987210297e-16.       *)
(***************************************************************************)
Double(u) == [u |-> u, e |-> 0]
Sgn(x) == IF x > 0 THEN 1 ELSE IF x < 0 THEN -1 ELSE 0
Abs(x) == IF x < 0 THEN -x ELSE x

\* a + b, rounded: a remainder is lost beside a value of ordinary size
FAdd(a, b) ==
    IF a.u + b.u # 0 THEN [u |-> a.u + b.u, e |-> 0]
    ELSE [u |-> 0, e |-> Sgn(a.e + b.e)]

\* x * mul / div for div > 0
FScale(x, mul, div) ==
    LET num == x.u * mul
        q == Sgn(num) * (Abs(num) \div div)
    IN IF q # 0 THEN [u |-> q, e |-> 0]
       ELSE IF num # 0 THEN [u |-> 0, e |-> Sgn(num)]
       ELSE [u |-> 0, e |-> Sgn(x.e * mul)]

\* sin(pi * p / q) in thousandths, for 0 <= p <= q
Bhaskara(p, q) == (16000 * p * (q - p)) \div (5 * q * q - 4 * p * (q - p))

\* sin of a / b of a turn in thousandths, for 0 <= a <= b
SinTurn(a, b) == IF 2 * a <= b THEN Bhaskara(2 * a, b) ELSE -Bhaskara(2 * a - b, b)

\* math.sin(2 * math.pi * k / n) and math.cos(2 * math.pi * k / n), lines 346-350
SinOf(k, n) ==
    IF SinTurn(k, n) # 0 THEN Double(SinTurn(k, n))
    ELSE [u |-> 0, e |-> IF k = 0 THEN 0 ELSE IF k = n THEN -1 ELSE 1]
CosOf(k, n) ==
    LET c == SinTurn((4 * k + n) % (4 * n), 4 * n) IN
    IF c # 0 THEN Double(c)
    ELSE [u |-> 0, e |-> IF 4 * k = n THEN 1 ELSE -1]

\* math.cos(math.radians(lat)) in thousandths, lat in whole degrees
CosLat(la) == Bhaskara(90 - la, 180)

\* lines 346-355: the point at index k.  degrees(1 / R) is 8.99e-6 degrees
\* per metre for R = 6371000: 9 micro-degrees
CirclePoint(la, lo, r, k, n) ==
    LET d_lat == FScale(CosOf(k, n), r * 9, 1000)
        d_lon == FScale(SinOf(k, n), r * 9, CosLat(la))
    IN [lat |-> FAdd(Double(la * 1000000), d_lat),
        lon |-> FAdd(Double(lo * 1000000), d_lon)]

LatChoices == {-60, 0, 40}
LonChoices == {-74, 0, 5}
RadiusChoices == {0, 10, 50}
NumPointsChoices == {1, 2, 3, 4, 64}

InitCircle ==
    /\ lat \in LatChoices
    /\ lon \in LonChoices
    /\ radius_meters \in RadiusChoices
    /\ num_points \in NumPointsChoices
    /\ i = 0
    /\ points = <<>>
    /\ pc = "circle"
    /\ fieldnames = <<>> /\ min_observations = 3 /\ consumed = <<>> /\ handled = <<>>
    /\ ap_observations = <<>> /\ ap_ssids = <<>> /\ stdout = <<>>
    /\ exc = "none" /\ triangulated_aps = <<>> /\ exit_code = <<>>
    /\ observations_in = <<>> /\ weights = <<>> /\ normalized_weights = <<>>
    /\ total_weight = [zero |-> TRUE, db |-> 0]
    /\ weighted_lat = 0 /\ weighted_lon = 0 /\ result = <<>>

\* one iteration of "for i in range(num_points + 1)" (lines 345-355)
CircleAppend ==
    /\ pc = "circle"
    /\ i < num_points + 1
    /\ points' = Append(points, CirclePoint(lat, lon, radius_meters, i, num_points))
    /\ i' = i + 1
    /\ UNCHANGED <<lat, lon, radius_meters, num_points, pc>>
    /\ UNCHANGED estimateVars
    /\ UNCHANGED <<fieldnames, min_observations, consumed, handled, ap_observations, ap_ssids,
                   stdout, exc, triangulated_aps, exit_code>>

\* the range is exhausted: return points (line 357)
CircleReturn ==
    /\ pc = "circle"
    /\ i >= num_points + 1
    /\ pc' = "circle_returned"
    /\ UNCHANGED circleVars
    /\ UNCHANGED estimateVars
    /\ UNCHANGED <<fieldnames, min_observations, consumed, handled, ap_observations, ap_ssids,
                   stdout, exc, triangulated_aps, exit_code>>

NextCircle == CircleAppend \/ CircleReturn

SpecCircle == InitCircle /\ [][NextCircle]_vars

\* the list returned has num_points + 1 points, the k-th the point at
\* bearing 2 * pi * (k - 1) / num_points
CirclePointsInOrder ==
    pc = "circle_returned" =>
        /\ Len(points) = num_points + 1
        /\ \A k \in 1..Len(points) :
              points[k] = CirclePoint(lat, lon, radius_meters, k - 1, num_points)

\* C10: for every center, radius and num_points >= 1 the list returned has
\* num_points + 1 points, sampled at the bearings 2 * pi * i / num_points for
\* i = 0..num_points in order, and its first and last points are identical.
C10_ClosedRing ==
    pc = "circle_returned" =>
        /\ Len(points) = num_points + 1
        /\ \A k \in 1..Len(points) :
              points[k] = CirclePoint(lat, lon, radius_meters, k - 1, num_points)
        /\ points[1] = points[Len(points)]

(***************************************************************************)
(* triangulate_position (lines 61-113) and haversine_distance (lines       *)
(* 42-58), for a list of at most one observation.                          *)
(*                                                                         *)
(* A weight is a double that is 0.0 or positive; it is held as zero or as  *)
(* its magnitude in decibels (ten times its decimal logarithm), which for  *)
(* 10 ** (signal_strength / 10) is signal_strength itself.  Products add   *)
(* the decibels and quotients subtract them.  A double has a largest and  *)
(* a smallest positive value: 10 ** x raises OverflowError from x = 308.3  *)
(* on, and a positive result below half of 5e-324 (10 ** -323.6 is the     *)
(* last one above it) is rounded to 0.0.                                   *)
(* The magnitudes are held to the decibel: whether a product is rounded to *)
(* 0.0 is exact except within a decibel or two of that threshold, where    *)
(* the rounding of 10 ** x to a multiple of 5e-324 decides; the inputs     *)
(* below keep clear of it.                                                 *)
(***************************************************************************)
\* the least signal_strength at which 10 ** (signal_strength / 10) raises
\* OverflowError (line 78)
PowOverflowsAt == 3083
\* the least magnitude, in decibels, that is not rounded to 0.0 (lines 78, 85)
MinDecibels == -3236

ZeroW == [zero |-> TRUE, db |-> 0]
PosW(db) == [zero |-> FALSE, db |-> db]
\* 1.0, and the int 1 of line 91
OneW == PosW(0)

\* 1000 * 10 ** (k / 10) for k = 0..10
DecibelSteps == <<1000, 1259, 1585, 1995, 2512, 3162, 3981, 5012, 6310, 7943, 10000>>

\* ten times the decimal logarithm of n / d, rounded up, for n >= d > 0
RECURSIVE Decibels(_, _)
Decibels(n, d) ==
    IF n >= 10 * d THEN 10 + Decibels(n, 10 * d)
    ELSE (CHOOSE k \in 1..11 :
              /\ 1000 * n <= DecibelSteps[k] * d
              /\ \A j \in 1..(k - 1) : 1000 * n > DecibelSteps[j] * d) - 1

\* a * b of two weights (line 85)
MulW(a, b) ==
    IF a.zero \/ b.zero \/ a.db + b.db < MinDecibels THEN ZeroW
    ELSE PosW(a.db + b.db)

\* a / b for b # 0 (line 94); a double divided by itself is exactly 1.0
DivW(a, b) ==
    IF a.zero THEN ZeroW
    ELSE IF a = b THEN OneW
    ELSE IF a.db - b.db < MinDecibels THEN ZeroW
    ELSE PosW(a.db - b.db)

\* a + b of two weights: exact when one of them is 0, else to the decibel
AddW(a, b) ==
    IF a.zero THEN b
    ELSE IF b.zero THEN a
    ELSE IF a.db >= b.db THEN a ELSE b

\* sum(weights) (line 89): 0 + weights[0] + ...
RECURSIVE SumW(_)
SumW(ws) == IF ws = <<>> THEN ZeroW ELSE AddW(SumW(SubSeq(ws, 1, Len(ws) - 1)), ws[Len(ws)])

\* what line 78 raises for one observation
SignalWeightRaises(s) == IF s >= PowOverflowsAt THEN "OverflowError" ELSE "none"
\* signal_weight = 10 ** (obs.signal_strength / 10) (line 78)
SignalWeight(s) == IF s < MinDecibels THEN ZeroW ELSE PosW(s)

\* what line 82 raises: accuracy is in tenths, accuracy + 1 is 0 at -1.0
AccuracyWeightRaises(a) == IF a + 10 = 0 THEN "ZeroDivisionError" ELSE "none"
\* accuracy_weight = 1 / (obs.accuracy + 1) (line 82), for accuracy >= 0
AccuracyWeight(a) == PosW(-Decibels(a + 10, 10))

\* lines 75-86 for one observation: the exception raised, or "none"
WeightRaises(obs) ==
    IF SignalWeightRaises(obs.signal_strength) # "none"
    THEN SignalWeightRaises(obs.signal_strength)
    ELSE AccuracyWeightRaises(obs.accuracy)
\* weight = signal_weight * accuracy_weight (line 85)
Weight(obs) == MulW(SignalWeight(obs.signal_strength), AccuracyWeight(obs.accuracy))

\* x * w for a float x in tenths and a weight w (lines 97, 98, 108): exact for
\* w = 1.0 and w = 0.0, else to the decibel
RECURSIVE TimesW(_, _)
TimesW(x, w) ==
    IF w.zero \/ x = 0 THEN 0
    ELSE IF w.db = 0 THEN x
    ELSE IF w.db <= -10 THEN TimesW(Sgn(x) * (Abs(x) \div 10), PosW(w.db + 10))
    ELSE IF w.db < 0 THEN Sgn(x) * ((Abs(x) * 1000) \div DecibelSteps[1 - w.db])
    ELSE IF w.db >= 10 THEN TimesW(x * 10, PosW(w.db - 10))
    ELSE (x * DecibelSteps[1 + w.db]) \div 1000

\* the integer square root
ISqrt(n) == CHOOSE r \in 0..n : r * r <= n /\ (r + 1) * (r + 1) > n

\* haversine_distance (lines 42-58) in tenths of a metre, the coordinates in
\* tenths of a degree: 0.0 for two identical points (a = 0, atan2(0, 1) = 0);
\* else the length of the chord of the differences, a tenth of a degree of
\* latitude being 11119.5 m
haversine_distance(lat1, lon1, lat2, lon2) ==
    IF lat1 = lat2 /\ lon1 = lon2 THEN 0
    ELSE LET dy == (lat2 - lat1) * 1000
             dx == (lon2 - lon1) * CosLat(Abs(lat1) \div 10)
         IN (111195 * ISqrt(dx * dx + dy * dy)) \div 1000

\* lines 75-86: the list of the weights
RECURSIVE Weights(_)
Weights(obss) ==
    IF obss = <<>> THEN <<>>
    ELSE Append(Weights(SubSeq(obss, 1, Len(obss) - 1)), Weight(obss[Len(obss)]))

\* the first exception lines 75-86 raise over the list, or "none"
WeightsRaise(obss) ==
    LET bad == {k \in 1..Len(obss) : WeightRaises(obss[k]) # "none"}
    IN IF bad = {} THEN "none"
       ELSE WeightRaises(obss[CHOOSE k \in bad : \A j \in bad : k <= j])

\* sum(f(obs) * w for obs, w in zip(observations, normalized_weights)),
\* lines 97, 98 and 108: 0 + the products
RECURSIVE WeightedSum(_, _)
WeightedSum(xs, ws) ==
    IF xs = <<>> THEN 0
    ELSE WeightedSum(SubSeq(xs, 1, Len(xs) - 1), ws) + TimesW(xs[Len(xs)], ws[Len(xs)])

RECURSIVE SumAccuracy(_)
SumAccuracy(obss) ==
    IF obss = <<>> THEN 0
    ELSE SumAccuracy(SubSeq(obss, 1, Len(obss) - 1)) + obss[Len(obss)].accuracy

\* sum(obs.accuracy for obs in observations) / len(observations) (line 108)
AvgGpsAccuracy(obss) == SumAccuracy(obss) \div Len(obss)

\* lines 100-111: uncertainty
Uncertainty(obss, nws, wlat, wlon) ==
    LET distances == [k \in 1..Len(obss) |->
                         haversine_distance(wlat, wlon, obss[k].latitude, obss[k].longitude)]
        weighted_distance == WeightedSum(distances, nws)
    IN weighted_distance + AvgGpsAccuracy(obss)

EstLatChoices == {-515, 0, 400}
EstLonChoices == {-740, 0}
EstSignalChoices == {-4000, -3237, -3236, -3230, -100, -50, 0, 3082, 3083, 4000}
EstAccuracyChoices == {-10, 0, 50, 90, 100}

InitEstimate ==
    /\ observations_in \in
          {<<>>} \cup {<<APObservation(la, lo, s, a)>> :
                          la \in EstLatChoices, lo \in EstLonChoices,
                          s \in EstSignalChoices, a \in EstAccuracyChoices}
    /\ weights = <<>> /\ normalized_weights = <<>>
    /\ total_weight = ZeroW
    /\ weighted_lat = 0 /\ weighted_lon = 0 /\ result = <<>>
    /\ pc = "estimate"
    /\ exc = "none"
    /\ fieldnames = <<>> /\ min_observations = 3 /\ consumed = <<>> /\ handled = <<>>
    /\ ap_observations = <<>> /\ ap_ssids = <<>> /\ stdout = <<>>
    /\ triangulated_aps = <<>> /\ exit_code = <<>>
    /\ lat = 0 /\ lon = 0 /\ radius_meters = 0 /\ num_points = 1
    /\ i = 0 /\ points = <<>>

\* "if not observations: raise ValueError" (lines 68-69)
EstimateEmpty ==
    /\ pc = "estimate"
    /\ observations_in = <<>>
    /\ exc' = "ValueError"
    /\ pc' = "estimate_raised"
    /\ UNCHANGED estimateVars
    /\ UNCHANGED circleVars
    /\ UNCHANGED <<fieldnames, min_observations, consumed, handled, ap_observations, ap_ssids,
                   stdout, triangulated_aps, exit_code>>

\* the loop that fills weights (lines 74-86), and what it raises
EstimateWeights ==
    /\ pc = "estimate"
    /\ observations_in # <<>>
    /\ IF WeightsRaise(observations_in) # "none"
       THEN /\ exc' = WeightsRaise(observations_in)
            /\ pc' = "estimate_raised"
            /\ UNCHANGED weights
       ELSE /\ weights' = Weights(observations_in)
            /\ pc' = "estimate_normalize"
            /\ UNCHANGED exc
    /\ UNCHANGED <<observations_in, total_weight, normalized_weights,
                   weighted_lat, weighted_lon, result>>
    /\ UNCHANGED circleVars
    /\ UNCHANGED <<fieldnames, min_observations, consumed, handled, ap_observations, ap_ssids,
                   stdout, triangulated_aps, exit_code>>

\* lines 88-94: the total, the equal weights when it is 0, the division
EstimateNormalize ==
    /\ pc = "estimate_normalize"
    /\ LET total == SumW(weights)
           ws == IF total.zero THEN [k \in 1..Len(observations_in) |-> OneW] ELSE weights
           tw == IF total.zero THEN PosW(Decibels(Len(observations_in), 1)) ELSE total
       IN /\ weights' = ws
          /\ total_weight' = tw
          /\ normalized_weights' = [k \in 1..Len(ws) |-> DivW(ws[k], tw)]
    /\ pc' = "estimate_centroid"
    /\ UNCHANGED <<observations_in, weighted_lat, weighted_lon, result, exc>>
    /\ UNCHANGED circleVars
    /\ UNCHANGED <<fieldnames, min_observations, consumed, handled, ap_observations, ap_ssids,
                   stdout, triangulated_aps, exit_code>>

\* lines 96-98: the weighted centroid
EstimateCentroid ==
    /\ pc = "estimate_centroid"
    /\ weighted_lat' = WeightedSum([k \in 1..Len(observations_in) |-> observations_in[k].latitude],
                                   normalized_weights)
    /\ weighted_lon' = WeightedSum([k \in 1..Len(observations_in) |-> observations_in[k].longitude],
                                   normalized_weights)
    /\ pc' = "estimate_uncertainty"
    /\ UNCHANGED <<observations_in, weights, total_weight, normalized_weights, result, exc>>
    /\ UNCHANGED circleVars
    /\ UNCHANGED <<fieldnames, min_observations, consumed, handled, ap_observations, ap_ssids,
                   stdout, triangulated_aps, exit_code>>

\* lines 100-113: the uncertainty, and the return
EstimateReturn ==
    /\ pc = "estimate_uncertainty"
    /\ result' = <<weighted_lat, weighted_lon,
                   Uncertainty(observations_in, normalized_weights, weighted_lat, weighted_lon)>>
    /\ pc' = "estimate_returned"
    /\ UNCHANGED <<observations_in, weights, total_weight, normalized_weights,
                   weighted_lat, weighted_lon, exc>>
    /\ UNCHANGED circleVars
    /\ UNCHANGED <<fieldnames, min_observations, consumed, handled, ap_observations, ap_ssids,
                   stdout, triangulated_aps, exit_code>>

NextEstimate ==
    EstimateEmpty \/ EstimateWeights \/ EstimateNormalize \/ EstimateCentroid \/ EstimateReturn

SpecEstimate == InitEstimate /\ [][NextEstimate]_vars

\* the call has ended, by a return or by an exception
EstimateEnded == pc \in {"estimate_returned", "estimate_raised"}

\* the step by step run raises what TriangulateRaises says, and returns
\* when it says "none"
EstimateRaisesAsTriangulateRaises ==
    EstimateEnded =>
        /\ exc = TriangulateRaises(observations_in)
        /\ (pc = "estimate_returned") = (exc = "none")

\* the list has one observation, whose accuracy is >= 0
SingleObservation == Len(observations_in) = 1 /\ observations_in[1].accuracy >= 0

\* the tuple returned is the observation's latitude, longitude and accuracy
ReturnsTheObservation ==
    /\ pc = "estimate_returned"
    /\ result = <<observations_in[1].latitude, observations_in[1].longitude,
                  observations_in[1].accuracy>>

\* the equal-weight fallback of lines 90-92 was taken
FallbackTaken ==
    /\ pc \in {"estimate_centroid", "estimate_uncertainty", "estimate_returned"}
    /\ Weights(observations_in) # weights

\* for one observation whose signal_strength is below the overflow of line
\* 78, the call returns the observation's latitude, longitude and accuracy,
\* the fallback taken or not
SingleObservationBelowOverflow ==
    (EstimateEnded /\ SingleObservation
        /\ observations_in[1].signal_strength < PowOverflowsAt) => ReturnsTheObservation

FallbackReturnReached ==
    SingleObservation /\ FallbackTaken /\ ReturnsTheObservation

\* C11: for a list of one observation triangulate_position returns exactly
\* that observation's latitude and longitude as the centroid and exactly its
\* accuracy as the uncertainty radius, for every signal strength and every
\* accuracy >= 0, the equal-weight fallback taken or not.
C11_SingleObservationReturned ==
    (EstimateEnded /\ SingleObservation) => ReturnsTheObservation

====
